---- MODULE Spec2Model ----
(***************************************************************************)
(* Model of paralympics_app/__init__.py: the application factory           *)
(* create_app, the two CSV loaders add_noc_data and add_medals_data, and   *)
(* the dashboard mount register_dashapp with _protect_dash_views.          *)
(*                                                                         *)
(* Strings that the code inspects character by character (endpoint names   *)
(* and URL rules, tested with str.startswith) are sequences of one         *)
(* character strings.  A pandas DataFrame is a sequence of rows, each with *)
(* its index label and its column values; a database table is the          *)
(* sequence of the rows written by to_sql.                                 *)
(***************************************************************************)
EXTENDS Integers, Sequences, FiniteSets, TLC

VARIABLES
    pc,              \* the statement of create_app that runs next
    calls,           \* number of create_app calls made by this process
    done,            \* statements the current call has completed, in order
    err,             \* the exception that ended the current call, if any
    url_map,         \* app.url_map: the rules (rule string, endpoint name)
    view_functions,  \* app.view_functions: endpoint name -> view
    inits,           \* init calls received by each module-level registry
    login_view,      \* login_manager.login_view
    loads,           \* completed runs of each loader in this process
    region,          \* database table 'region'
    medals,          \* database table 'medals'
    loaded           \* the CSV contents read by the latest loader run

vars == <<pc, calls, done, err, url_map, view_functions, inits, login_view,
          loads, region, medals, loaded>>

----------------------------------------------------------------------------
(* Bounds *)

MaxNocRows == 3

MaxMedalRows == 2

MaxCalls == 2

----------------------------------------------------------------------------
(* Strings as character sequences *)

startswith(s, prefix) ==
    /\ Len(s) >= Len(prefix)
    /\ SubSeq(s, 1, Len(prefix)) = prefix

\* url_base_pathname='/dashboard/'; Dash derives routes_pathname_prefix from it
routes_pathname_prefix == <<"/","d","a","s","h","b","o","a","r","d","/">>

\* Flask(__name__) registers its static folder under endpoint 'static'
FlaskRules ==
    { [rule |-> <<"/","s","t","a","t","i","c","/","<","p","a","t","h",":",
                  "f","i","l","e","n","a","m","e",">">>,
       endpoint |-> <<"s","t","a","t","i","c">>] }

\* URLs Dash adds relative to its prefix (index, layout, callback dispatch,
\* catch-all); each is registered with the full rule string as its endpoint
\* name.
DashUrlNames ==
    { <<>>,
      <<"_","d","a","s","h","-","l","a","y","o","u","t">>,
      <<"_","d","a","s","h","-","u","p","d","a","t","e","-",
        "c","o","m","p","o","n","e","n","t">>,
      <<"<","p","a","t","h",":","p","a","t","h",">">> }

\* The assets_folder is served by a blueprint named after the prefix with
\* '/' replaced by '_'; its rule lies under the prefix, its endpoint name
\* is '<blueprint>.static'.
DashAssetsRule ==
    [rule |-> routes_pathname_prefix \o
              <<"a","s","s","e","t","s","/","<","p","a","t","h",":",
                "f","i","l","e","n","a","m","e",">">>,
     endpoint |-> <<"_","d","a","s","h","b","o","a","r","d","_","d","a","s","h",
                    "_","a","s","s","e","t","s",".","s","t","a","t","i","c">>]

DashRules ==
    { [rule |-> routes_pathname_prefix \o n,
       endpoint |-> routes_pathname_prefix \o n] : n \in DashUrlNames }
    \cup { DashAssetsRule }

\* Blueprint endpoints are '<blueprint name>.<view name>'
MainRules ==
    { [rule |-> <<"/">>,
       endpoint |-> <<"m","a","i","n",".","i","n","d","e","x">>] }

AuthLogin == <<"a","u","t","h",".","l","o","g","i","n">>

AuthRules ==
    { [rule |-> <<"/","l","o","g","i","n">>, endpoint |-> AuthLogin] }

NoLoginView == <<>>

\* A view: the function originally registered, and whether it is wrapped
View(endpoint) == [view |-> endpoint, login_required |-> FALSE]

login_required(v) == [v EXCEPT !.login_required = TRUE]

add_url_rules(vf, rules) ==
    [e \in DOMAIN vf \cup {r.endpoint : r \in rules} |->
        IF e \in DOMAIN vf THEN vf[e] ELSE View(e)]

----------------------------------------------------------------------------
(* create_app: statement order *)

CreateAppBody ==
    << "Flask", "from_object", "Dash", "register_callbacks",
       "_protect_dash_views", "csrf.init_app", "db.init_app",
       "login_manager.init_app", "configure_uploads", "create_all",
       "add_noc_data", "add_medals_data", "register_main_bp",
       "register_auth_bp", "return" >>

PositionOf(step) == CHOOSE i \in 1..Len(CreateAppBody) : CreateAppBody[i] = step

\* create_app with the loaders called before db.create_all()
NextStepLoadersFirst(step) ==
    CASE step = "Flask" -> "from_object"
      [] step = "from_object" -> "Dash"
      [] step = "Dash" -> "register_callbacks"
      [] step = "register_callbacks" -> "_protect_dash_views"
      [] step = "_protect_dash_views" -> "csrf.init_app"
      [] step = "csrf.init_app" -> "db.init_app"
      [] step = "db.init_app" -> "login_manager.init_app"
      [] step = "login_manager.init_app" -> "configure_uploads"
      [] step = "configure_uploads" -> "add_noc_data"
      [] step = "add_noc_data" -> "add_medals_data"
      [] step = "add_medals_data" -> "create_all"
      [] step = "create_all" -> "register_main_bp"
      [] step = "register_main_bp" -> "register_auth_bp"
      [] step = "register_auth_bp" -> "return"
      [] OTHER -> "returned"

NextStep(step) ==
    IF step = "return" THEN "returned"
    ELSE CreateAppBody[PositionOf(step) + 1]

Registries == {"csrf", "db", "login_manager", "photos"}

Loaders == {"add_noc_data", "add_medals_data"}

NoError == [at |-> "none", kind |-> "none"]

NoLoad == [table |-> "none", source |-> <<>>]

----------------------------------------------------------------------------
(* pandas: read_csv, dropna, drop_duplicates, reset_index, to_sql *)

NaN == "NaN"

\* Cell texts that read_csv turns into a missing value (default na_values)
NaValues == {"", "NA", "N/A", "NaN", "NULL", "null", "nan"}

ParseCell(text) == IF text \in NaValues THEN NaN ELSE text

\* Cell texts of the 'region' column of noc_regions.csv
NocCells == {"UK", "FR", ""}

\* Rows of all_medals.csv
MedalRows ==
    { [Country |-> "GBR", Medal |-> "Gold"],
      [Country |-> "FRA", Medal |-> ""],
      [Country |-> "", Medal |-> "Silver"] }

SeqUpTo(S, n) == UNION { [1..k -> S] : k \in 0..n }

\* The region column of each possible noc_regions.csv
NocFiles == SeqUpTo(NocCells, MaxNocRows)

MedalFiles == SeqUpTo(MedalRows, MaxMedalRows)

\* read_csv(filename, usecols=['region']): RangeIndex 0..n-1
read_csv_region(file) ==
    [i \in 1..Len(file) |->
        [index |-> i - 1, data |-> [region |-> ParseCell(file[i])]]]

\* read_csv(filename): every column, RangeIndex 0..n-1
read_csv(file) ==
    [i \in 1..Len(file) |->
        [index |-> i - 1,
         data |-> [c \in DOMAIN file[i] |-> ParseCell(file[i][c])]]]

\* The rows of df at the positions in kept, in order, each with its index
\* label
SelectRows(df, kept) ==
    LET F[i \in 0..Len(df)] ==
            IF i = 0 THEN <<>>
            ELSE IF i \in kept THEN Append(F[i - 1], df[i]) ELSE F[i - 1]
    IN F[Len(df)]

\* dropna(how='all'): drop only the rows whose every column is missing
dropna_all(df) ==
    SelectRows(df, { i \in 1..Len(df) :
                       \E c \in DOMAIN df[i].data : df[i].data[c] # NaN })

\* df.dropna(axis=0): drop the rows with a missing value in any column
dropna(df) ==
    SelectRows(df, { i \in 1..Len(df) :
                       \A c \in DOMAIN df[i].data : df[i].data[c] # NaN })

\* df.drop_duplicates(subset=['region'], keep='first')
drop_duplicates(df) ==
    SelectRows(df, { i \in 1..Len(df) :
                       \A j \in 1..(i - 1) :
                           df[j].data.region # df[i].data.region })

\* The index labels left as dropna and drop_duplicates kept them
reset_index_omitted(df) == df

\* df.reset_index(drop=True)
reset_index(df) == [i \in 1..Len(df) |-> [df[i] EXCEPT !.index = i - 1]]

\* df['id'] = df.index
assign_id(df) ==
    [i \in 1..Len(df) |->
        [index |-> df[i].index,
         data |-> [c \in DOMAIN df[i].data \cup {"id"} |->
                      IF c = "id" THEN df[i].index ELSE df[i].data[c]]]]

\* to_sql(if_exists='append'): the new rows follow the rows already there
to_sql_append(table, df) == table \o [i \in 1..Len(df) |-> df[i].data]

\* df.to_sql(name, if_exists='replace', index=False): the table's new rows
to_sql(table, df) == [i \in 1..Len(df) |-> df[i].data]

\* Lines 58-62 of add_noc_data
NocFrame(file) ==
    assign_id(reset_index(drop_duplicates(dropna(read_csv_region(file)))))

\* Lines 72-74 of add_medals_data
MedalsFrame(file) == assign_id(dropna(read_csv(file)))

\* Exceptions read_csv raises on a missing, unreadable or malformed file
ReadCsvErrors ==
    {"FileNotFoundError", "PermissionError", "ParserError", "EmptyDataError"}

\* Table contents a database file can hold when the process starts
PriorRegion ==
    { <<>>,
      << [id |-> 0, region |-> "DE"], [id |-> 1, region |-> "DE"],
         [id |-> 2, region |-> NaN] >> }

PriorMedals ==
    { <<>>,
      << [id |-> 0, Country |-> "USA", Medal |-> "Bronze"],
         [id |-> 1, Country |-> "USA", Medal |-> NaN] >> }

----------------------------------------------------------------------------
(* Initial state: the module has been imported (lines 13-17) *)

Init ==
    /\ pc = "idle"
    /\ calls = 0
    /\ done = <<>>
    /\ err = NoError
    /\ url_map = {}
    /\ view_functions = <<>>
    /\ inits = [r \in Registries |-> 0]
    /\ login_view = NoLoginView
    /\ loads = [l \in Loaders |-> 0]
    /\ region \in PriorRegion
    /\ medals \in PriorMedals
    /\ loaded = NoLoad

\* A statement of create_app completes and control passes to the next one
Advance(step) ==
    /\ pc = step
    /\ pc' = NextStep(step)
    /\ done' = Append(done, step)

\* The exceptions of a statement that end startup: a configuration class
\* that cannot be imported, a dashboard, model or blueprint module that
\* cannot be imported, a configuration without database URI or upload
\* destination, a database that cannot create the tables
ErrorsAt(step) ==
    CASE step = "from_object" -> {"ImportError"}
      [] step = "Dash" -> {"ImportError"}
      [] step = "register_callbacks" -> {"Exception"}
      [] step = "db.init_app" -> {"RuntimeError"}
      [] step = "configure_uploads" -> {"RuntimeError"}
      [] step = "create_all" -> {"ImportError", "OperationalError"}
      [] step = "register_main_bp" -> {"ImportError"}
      [] step = "register_auth_bp" -> {"ImportError"}
      [] OTHER -> {}

\* The exception is caught and startup goes on with the next statement
PropagateSwallowed(step, kind) ==
    /\ pc = step
    /\ pc' = NextStep(step)
    /\ err' = [at |-> step, kind |-> kind]
    /\ UNCHANGED done

\* An exception propagates out of create_app: nothing catches it
Propagate(step, kind) ==
    /\ pc = step
    /\ pc' = "raised"
    /\ err' = [at |-> step, kind |-> kind]
    /\ UNCHANGED done

Raise ==
    /\ \E step \in {CreateAppBody[i] : i \in 1..Len(CreateAppBody)} :
         \E kind \in ErrorsAt(step) : Propagate(step, kind)
    /\ UNCHANGED <<calls, url_map, view_functions, inits, login_view, loads,
                   region, medals, loaded>>

\* create_app is called; line 26: app = Flask(__name__)
CreateApp ==
    /\ pc \in {"idle", "returned", "raised"}
    /\ calls < MaxCalls
    /\ calls' = calls + 1
    /\ pc' = NextStep("Flask")
    /\ done' = <<"Flask">>
    /\ err' = NoError
    /\ url_map' = FlaskRules
    /\ view_functions' = add_url_rules(<<>>, FlaskRules)
    /\ loaded' = NoLoad
    /\ UNCHANGED <<inits, login_view, loads, region, medals>>

\* line 27
FromObject ==
    /\ Advance("from_object")
    /\ UNCHANGED <<calls, err, url_map, view_functions, inits, login_view,
                   loads, region, medals, loaded>>

\* lines 85-90: dash.Dash(server=app, url_base_pathname='/dashboard/', ...)
DashInit ==
    /\ Advance("Dash")
    /\ url_map' = url_map \cup DashRules
    /\ view_functions' = add_url_rules(view_functions, DashRules)
    /\ UNCHANGED <<calls, err, inits, login_view, loads, region, medals,
                   loaded>>

\* lines 92-95: title, layout, callbacks; no Flask route is added
RegisterCallbacks ==
    /\ Advance("register_callbacks")
    /\ UNCHANGED <<calls, err, url_map, view_functions, inits, login_view,
                   loads, region, medals, loaded>>

\* Every view wrapped, whatever its endpoint name
_protect_all_views(vf) == [e \in DOMAIN vf |-> login_required(vf[e])]

\* lines 101-105
_protect_dash_views(vf) ==
    [e \in DOMAIN vf |->
        IF startswith(e, routes_pathname_prefix)
        THEN login_required(vf[e]) ELSE vf[e]]

ProtectDashViews ==
    /\ Advance("_protect_dash_views")
    /\ view_functions' = _protect_dash_views(view_functions)
    /\ UNCHANGED <<calls, err, url_map, inits, login_view, loads, region,
                   medals, loaded>>

\* The registry initialised twice by one statement
init_app_twice(registry) == inits' = [inits EXCEPT ![registry] = @ + 2]

init_app(registry) == inits' = [inits EXCEPT ![registry] = @ + 1]

\* line 31
CsrfInit ==
    /\ Advance("csrf.init_app")
    /\ init_app("csrf")
    /\ UNCHANGED <<calls, err, url_map, view_functions, login_view, loads,
                   region, medals, loaded>>

\* line 32
DbInit ==
    /\ Advance("db.init_app")
    /\ init_app("db")
    /\ UNCHANGED <<calls, err, url_map, view_functions, login_view, loads,
                   region, medals, loaded>>

\* lines 33-34
LoginManagerInit ==
    /\ Advance("login_manager.init_app")
    /\ login_view' = AuthLogin
    /\ init_app("login_manager")
    /\ UNCHANGED <<calls, err, url_map, view_functions, loads, region, medals,
                   loaded>>

\* line 35
ConfigureUploads ==
    /\ Advance("configure_uploads")
    /\ init_app("photos")
    /\ UNCHANGED <<calls, err, url_map, view_functions, login_view, loads,
                   region, medals, loaded>>

\* lines 37-39: db.create_all() creates the missing tables, keeps existing rows
CreateAll ==
    /\ Advance("create_all")
    /\ UNCHANGED <<calls, err, url_map, view_functions, inits, login_view,
                   loads, region, medals, loaded>>

\* lines 52-63, with the file found on disk
AddNocData ==
    /\ Advance("add_noc_data")
    /\ \E file \in NocFiles :
         /\ region' = to_sql(region, NocFrame(file))
         /\ loaded' = [table |-> "region", source |-> file]
    /\ loads' = [loads EXCEPT !["add_noc_data"] = @ + 1]
    /\ UNCHANGED <<calls, err, url_map, view_functions, inits, login_view,
                   medals>>

\* line 58 raises: the function is left before to_sql
AddNocDataRaises ==
    /\ \E kind \in ReadCsvErrors \cup {"ValueError"} :
         Propagate("add_noc_data", kind)
    /\ UNCHANGED <<calls, url_map, view_functions, inits, login_view, loads,
                   region, medals, loaded>>

\* lines 66-75
AddMedalsData ==
    /\ Advance("add_medals_data")
    /\ \E file \in MedalFiles :
         /\ medals' = to_sql(medals, MedalsFrame(file))
         /\ loaded' = [table |-> "medals", source |-> file]
    /\ loads' = [loads EXCEPT !["add_medals_data"] = @ + 1]
    /\ UNCHANGED <<calls, err, url_map, view_functions, inits, login_view,
                   region>>

\* The table dropped for replacement before the read fails
AddMedalsDataRaisesAfterDrop ==
    /\ \E kind \in ReadCsvErrors : Propagate("add_medals_data", kind)
    /\ medals' = <<>>
    /\ UNCHANGED <<calls, url_map, view_functions, inits, login_view, loads,
                   region, loaded>>

\* line 72 raises: the function is left before to_sql
AddMedalsDataRaises ==
    /\ \E kind \in ReadCsvErrors : Propagate("add_medals_data", kind)
    /\ UNCHANGED <<calls, url_map, view_functions, inits, login_view, loads,
                   region, medals, loaded>>

register_blueprint(rules) ==
    /\ url_map' = url_map \cup rules
    /\ view_functions' = add_url_rules(view_functions, rules)

\* lines 43-44
RegisterMain ==
    /\ Advance("register_main_bp")
    /\ register_blueprint(MainRules)
    /\ UNCHANGED <<calls, err, inits, login_view, loads, region, medals,
                   loaded>>

\* lines 46-47
RegisterAuth ==
    /\ Advance("register_auth_bp")
    /\ register_blueprint(AuthRules)
    /\ UNCHANGED <<calls, err, inits, login_view, loads, region, medals,
                   loaded>>

\* line 49
Return ==
    /\ Advance("return")
    /\ UNCHANGED <<calls, err, url_map, view_functions, inits, login_view,
                   loads, region, medals, loaded>>

\* What the view registered under a rule's endpoint answers to a request,
\* once login_required (if wrapped) has looked at the session
Dispatch(rule, authenticated) ==
    LET v == view_functions[rule.endpoint] IN
    IF v.login_required /\ ~authenticated
    THEN [kind |-> "redirect", to |-> login_view]
    ELSE [kind |-> "view", of |-> v.view]

Next ==
    \/ CreateApp
    \/ FromObject
    \/ DashInit
    \/ RegisterCallbacks
    \/ ProtectDashViews
    \/ CsrfInit
    \/ DbInit
    \/ LoginManagerInit
    \/ ConfigureUploads
    \/ CreateAll
    \/ AddNocData
    \/ AddNocDataRaises
    \/ AddMedalsData
    \/ AddMedalsDataRaises
    \/ RegisterMain
    \/ RegisterAuth
    \/ Return
    \/ Raise

Spec == Init /\ [][Next]_vars

----------------------------------------------------------------------------
(* Properties *)

Range(f) == { f[i] : i \in DOMAIN f }

IsPrefix(s, t) == Len(s) <= Len(t) /\ SubSeq(t, 1, Len(s)) = s

UnderDashboard(rule) == startswith(rule, <<"/","d","a","s","h","b","o","a","r","d","/">>)

\* C1: every request to a route whose path starts with '/dashboard/' is
\* answered with the redirect to login when it carries no authenticated
\* session, and with the underlying dashboard view when it carries one.
C1_DashboardRoutesGuarded ==
    pc = "returned" =>
        \A rule \in url_map :
            UnderDashboard(rule.rule) =>
                /\ Dispatch(rule, FALSE) = [kind |-> "redirect", to |-> AuthLogin]
                /\ Dispatch(rule, TRUE) = [kind |-> "view", of |-> rule.endpoint]

\* The non-missing region names of a source, and where each first occurs
SourceNames(source) == Range(source) \ NaValues

FirstPosition(source, name) ==
    CHOOSE i \in 1..Len(source) :
        /\ source[i] = name
        /\ \A j \in 1..(i - 1) : source[j] # name

\* C2: after add_noc_data the region table has one row per distinct
\* non-null region name of the source, the ids are 0..n-1 in row order, and
\* the rows are in order of first occurrence of their names.
C2_RegionIdsSequential ==
    loaded.table = "region" =>
        LET names == SourceNames(loaded.source)
            n == Cardinality(names)
        IN /\ Len(region) = n
           /\ { region[i].id : i \in 1..Len(region) } = 0..(n - 1)
           /\ \A i \in 1..Len(region) :
                /\ region[i].id = i - 1
                /\ region[i].region \in names
           /\ \A i, j \in 1..Len(region) :
                i < j => FirstPosition(loaded.source, region[i].region)
                           < FirstPosition(loaded.source, region[j].region)

C2_Witness ==
    /\ loaded.table = "region"
    /\ loaded.source = <<"UK", "", "FR">>
    /\ region = << [id |-> 0, region |-> "UK"], [id |-> 1, region |-> "FR"] >>

FullRow(row) == \A c \in DOMAIN row : row[c] \notin NaValues

FullRows(source) == SelectSeq(source, FullRow)

\* C3: after add_medals_data the ids of the medals table are 0..m-1, m the
\* number of source rows without a missing field.
C3_MedalIdsSequential ==
    loaded.table = "medals" =>
        /\ Len(medals) = Len(FullRows(loaded.source))
        /\ \A i \in 1..Len(medals) : medals[i].id = i - 1

RegionTableClean ==
    /\ \A i \in 1..Len(region) : region[i].region # NaN
    /\ \A i, j \in 1..Len(region) :
         region[i].region = region[j].region => i = j

MedalsTableClean ==
    \A i \in 1..Len(medals) :
        \A c \in DOMAIN medals[i] \ {"id"} : medals[i][c] # NaN

\* C4: once a loader has completed, in this or an earlier startup, its table
\* is clean: region names are unique and non-null, medal rows have no
\* missing value.
C4_TablesClean ==
    /\ loads["add_noc_data"] >= 1 => RegionTableClean
    /\ loads["add_medals_data"] >= 1 => MedalsTableClean

C4_Witness ==
    /\ loads["add_noc_data"] = 2
    /\ loads["add_medals_data"] = 2
    /\ loaded.table = "medals"
    /\ \E i \in 1..Len(loaded.source) : ~FullRow(loaded.source[i])
    /\ Len(medals) = 1
    /\ Len(region) = 2

WithoutId(row) == [c \in DOMAIN row \ {"id"} |-> row[c]]

\* C5: whatever the tables held before, after a loader has run its table
\* holds exactly the rows derived from the source it read: every non-null
\* region name of the source and no other; every fully populated medal row
\* of the source, in order, and no other.
C5_TablesReplaced ==
    /\ loaded.table = "region" =>
         /\ { region[i].region : i \in 1..Len(region) }
              = SourceNames(loaded.source)
         /\ Len(region) = Cardinality(SourceNames(loaded.source))
    /\ loaded.table = "medals" =>
         [i \in 1..Len(medals) |-> WithoutId(medals[i])]
           = FullRows(loaded.source)

C5_Witness ==
    /\ calls = 2
    /\ loads["add_medals_data"] = 2
    /\ loaded.table = "medals"
    /\ loaded.source = << [Country |-> "GBR", Medal |-> "Gold"] >>
    /\ medals = << [id |-> 0, Country |-> "GBR", Medal |-> "Gold"] >>
    /\ region = << [id |-> 0, region |-> "FR"] >>

\* C6 as stated: a loader failure surfaces as a DataLoadError and leaves
\* each table fully replaced or as it was.
C6_LoaderFailureIsDataLoadError ==
    (pc = "raised" /\ err.at \in Loaders) => err.kind = "DataLoadError"

\* C6 amended: a loader whose CSV cannot be read ends create_app with the
\* exception read_csv raised, and the failing loader writes nothing: both
\* tables are as they were before it ran (region as add_noc_data left it
\* when add_medals_data fails).
C6_LoaderFailureWritesNothing ==
    [][ (pc \in Loaders /\ pc' = "raised") =>
          /\ err'.at = pc
          /\ err'.kind \in ReadCsvErrors \cup {"ValueError"}
          /\ region' = region
          /\ medals' = medals
          /\ (pc = "add_medals_data" =>
                /\ loaded.table = "region"
                /\ region' = to_sql(<<>>, NocFrame(loaded.source))) ]_vars

C6_Witness ==
    /\ pc = "raised"
    /\ err.at = "add_medals_data"
    /\ loaded.table = "region"
    /\ Len(region) = 2
    /\ medals \in PriorMedals \ {<<>>}

\* C7: once a statement of create_app has raised, the call is over: it
\* never returns an app, the statements completed are exactly those before
\* the failing one, and the failing statement is not run again.
C7_FailureAbortsStartup ==
    /\ pc = "raised" <=> err # NoError
    /\ err # NoError =>
         /\ pc # "returned"
         /\ err.at \notin Range(done)
         /\ done = SubSeq(CreateAppBody, 1, PositionOf(err.at) - 1)

C7_Witness ==
    /\ pc = "raised"
    /\ err.at = "create_all"
    /\ Len(done) = 9

ClaimedOrder ==
    << "Flask", "from_object", "Dash", "register_callbacks",
       "_protect_dash_views", "csrf.init_app", "db.init_app",
       "login_manager.init_app", "configure_uploads", "create_all",
       "add_noc_data", "add_medals_data", "register_main_bp",
       "register_auth_bp", "return" >>

\* C8: the statements a create_app call has completed are always an initial
\* part of: configuration, dashboard mount, login wrapping, csrf, db, login
\* manager, uploads, schema, add_noc_data, add_medals_data, main, auth,
\* return; the dashboard's routes exist when the wrapping pass runs.
C8_StepOrder ==
    /\ IsPrefix(done, ClaimedOrder)
    /\ pc = "returned" => done = ClaimedOrder
    /\ pc = "_protect_dash_views" => DashRules \subseteq url_map

C8_Witness ==
    /\ pc = "returned"
    /\ done = ClaimedOrder
    /\ loads["add_noc_data"] = 1

InitStep(r) ==
    CASE r = "csrf" -> "csrf.init_app"
      [] r = "db" -> "db.init_app"
      [] r = "login_manager" -> "login_manager.init_app"
      [] r = "photos" -> "configure_uploads"

\* C9 as stated: no registry is initialised twice and no loader runs twice
\* in one process.
C9_InitialisedOnce ==
    /\ \A r \in Registries : inits[r] <= 1
    /\ \A l \in Loaders : loads[l] <= 1

AtMostOncePerCall(count, step) ==
    /\ count <= calls
    /\ step \in Range(done) => count >= 1
    /\ (calls > 0 /\ step \notin Range(done)) => count <= calls - 1

\* C9 amended: every create_app call initialises each registry at most
\* once and runs each loader at most once, exactly once when it returns;
\* over k calls each is initialised up to k times.
C9_InitialisedOncePerCall ==
    /\ \A r \in Registries : AtMostOncePerCall(inits[r], InitStep(r))
    /\ \A l \in Loaders : AtMostOncePerCall(loads[l], l)

C9_Witness ==
    /\ calls = 2
    /\ pc = "returned"
    /\ \A r \in Registries : inits[r] = 2
    /\ \A l \in Loaders : loads[l] = 2

\* C10: only views whose endpoint name starts with '/dashboard/' are ever
\* wrapped; every other view, present at the wrapping pass or registered
\* later, is the function that was registered, and auth.login answers
\* requests that carry no authenticated session.
C10_OnlyDashboardViewsWrapped ==
    /\ \A e \in DOMAIN view_functions :
         /\ view_functions[e].view = e
         /\ view_functions[e].login_required => UnderDashboard(e)
    /\ \A rule \in url_map :
         rule.endpoint = AuthLogin => Dispatch(rule, FALSE).kind = "view"

C10_Witness ==
    /\ pc = "returned"
    /\ \E e \in DOMAIN view_functions : view_functions[e].login_required
    /\ \E rule \in url_map :
         rule.endpoint = AuthLogin /\ ~view_functions[AuthLogin].login_required
    /\ \E rule \in url_map :
         Dispatch(rule, FALSE) = [kind |-> "view", of |-> AuthLogin]

====
